---- MODULE Spec2Model ----
(***************************************************************************)
(* Model of morpheus-CLI: the AITerminal class (terminal.ts), its helpers  *)
(* (utils.ts: TerminalHistory, sanitizeInput, parseCommand), the command   *)
(* line front end (cli.ts: interactive loop and exec action) and the       *)
(* command handler of the graphical terminal (ui.tsx).                     *)
(*                                                                         *)
(* A text is a sequence of atoms.  Text typed by the user, written by a    *)
(* child process or entered as a credential is a sequence of one-character *)
(* strings, so that trim, indexOf, substring, toLowerCase and startsWith   *)
(* are computed character by character.  A fixed message of the program is *)
(* a single atom holding the whole message.                                *)
(***************************************************************************)
EXTENDS Integers, Sequences, FiniteSets, TLC

(***************************************************************************)
(* Bounds of the model.                                                    *)
(***************************************************************************)
\* The number of commands one session is given.
MaxOps == 2

\* The number of calls made on a TerminalHistory that is used on its own.
MaxCalls == 6

(***************************************************************************)
(* String primitives of the JavaScript runtime.                            *)
(***************************************************************************)
\* Characters String.prototype.trim removes (those the inputs can hold).
IsWS(c) == c \in {" ", "\t", "\n", "\r"}

RECURSIVE TrimStart(_)
TrimStart(s) ==
  IF s = <<>> THEN <<>>
  ELSE IF IsWS(Head(s)) THEN TrimStart(Tail(s)) ELSE s

RECURSIVE TrimEnd(_)
TrimEnd(s) ==
  IF s = <<>> THEN <<>>
  ELSE IF IsWS(s[Len(s)]) THEN TrimEnd(SubSeq(s, 1, Len(s) - 1)) ELSE s

\* String.prototype.trim
Trim(s) == TrimEnd(TrimStart(s))

\* String.prototype.toLowerCase on one character.
LowerChar(c) ==
  CASE c = "E" -> "e" [] c = "X" -> "x" [] c = "P" -> "p" [] c = "L" -> "l"
    [] c = "A" -> "a" [] c = "I" -> "i" [] c = "N" -> "n" [] c = "T" -> "t"
    [] c = "F" -> "f" [] c = "O" -> "o" [] c = "S" -> "s"
    [] OTHER -> c

\* String.prototype.toLowerCase
ToLowerCase(s) == [i \in 1..Len(s) |-> LowerChar(s[i])]

\* String.prototype.indexOf(c): 0-based position of the first c, or -1.
RECURSIVE IndexFrom(_, _, _)
IndexFrom(s, c, i) ==
  IF i > Len(s) THEN -1
  ELSE IF s[i] = c THEN i - 1 ELSE IndexFrom(s, c, i + 1)

IndexOf(s, c) == IndexFrom(s, c, 1)

\* String.prototype.substring(from, to) and substring(from), 0-based.
Substring(s, from, to) == SubSeq(s, from + 1, to)
SubstringFrom(s, from) == SubSeq(s, from + 1, Len(s))

\* String.prototype.startsWith
StartsWith(s, p) == Len(s) >= Len(p) /\ SubSeq(s, 1, Len(p)) = p

\* String.prototype.replace(/[\r\n]+/g, " "): every maximal run of carriage
\* returns and line feeds becomes one space.
IsCRLF(c) == c \in {"\n", "\r"}

RECURSIVE ReplaceCRLF(_)
ReplaceCRLF(s) ==
  IF s = <<>> THEN <<>>
  ELSE IF IsCRLF(Head(s))
       THEN IF Len(s) > 1 /\ IsCRLF(s[2])
            THEN ReplaceCRLF(Tail(s))
            ELSE <<" ">> \o ReplaceCRLF(Tail(s))
       ELSE <<Head(s)>> \o ReplaceCRLF(Tail(s))

\* Concatenation of a sequence of texts (the += of the callers).
RECURSIVE Concat(_)
Concat(ss) == IF ss = <<>> THEN <<>> ELSE Head(ss) \o Concat(Tail(ss))

(***************************************************************************)
(* utils.ts: sanitizeInput and parseCommand.                               *)
(***************************************************************************)
sanitizeInput(input) == ReplaceCRLF(Trim(input))

parseCommand(input) ==
  LET trimmed == sanitizeInput(input)
      spaceIndex == IndexOf(trimmed, " ")
  IN IF spaceIndex = -1
     THEN [command |-> ToLowerCase(trimmed), args |-> <<>>]
     ELSE [command |-> ToLowerCase(Substring(trimmed, 0, spaceIndex)),
           args |-> Trim(SubstringFrom(trimmed, spaceIndex + 1))]

(***************************************************************************)
(* Fixed texts of the program.                                             *)
(***************************************************************************)
Str_help      == <<"h", "e", "l", "p">>
Str_explain   == <<"e", "x", "p", "l", "a", "i", "n">>
Str_generate  == <<"g", "e", "n", "e", "r", "a", "t", "e">>
Str_summarize == <<"s", "u", "m", "m", "a", "r", "i", "z", "e">>
Str_vision    == <<"v", "i", "s", "i", "o", "n">>
Str_clear     == <<"c", "l", "e", "a", "r">>
Str_exit      == <<"e", "x", "i", "t">>

\* The verbs the front ends and streamResponse treat as streamed.
StreamVerbs == <<Str_explain, Str_generate, Str_summarize>>

\* chalk.yellow wraps a text in the colour's escape sequences.
Yellow(s) == <<"\\x1b[33m">> \o s \o <<"\\x1b[39m">>

MsgNoKey ==
  Yellow(<<"AI features require a valid Gemini API key. Shell commands will continue to work normally.">>)
MsgHelp == <<"AI Terminal - Hybrid Shell + AI Assistant ... Note: AI features will prompt for Gemini API key if not set.">>
MsgUsageExplain == <<"Please provide text to explain. Usage: explain <text>">>
MsgUsageGenerate == <<"Please provide a generation request. Usage: generate <request>">>
MsgUsageSummarize == <<"Please provide text to summarize. Usage: summarize <text>">>
MsgUsageVision == <<"Please provide an image path. Usage: vision <image_path>">>
MsgNotInitialized == <<"AI not initialized. Use an AI command to set up API key.">>
MsgVisionNotInitialized == <<"AI not initialized">>
MsgStreamNotInitialized == <<"Error: AI not initialized. Use an AI command to set up API key.">>
MsgCleared == <<"Terminal cleared.">>
MsgUnknownAI == <<"Unknown AI command">>
MsgExecuted == <<"Command executed successfully">>
MsgFailedWithCode == <<"Command failed with code ">>
MsgImageNotFound == <<"Image file not found: ">>
PrefixError == <<"Error: ">>
PrefixAIError == <<"AI Error: ">>
PrefixVisionError == <<"Vision error: ">>
PromptExplain == <<"Explain this in 2-3 lines max, concise and technical:\n\n">>
PromptGenerate == <<"Generate clean code only, no explanations unless essential. Keep it minimal:\n\n">>
PromptSummarize == <<"Summarize in 2-3 lines max, key points only:\n\n">>
PromptVision == <<"Analyze this image and provide: 1) A detailed description, 2) Any text you can extract, 3) Technical details if it's a diagram/code/screenshot">>

\* The smallest trimmed length promptForApiKey accepts.
MinKeyLength == 20

\* The optional error field of a CommandResult that was not set.
Undefined == <<"undefined">>

\* One step of an operation, in the order the steps happen.
Event(e, v) == [e |-> e, v |-> v]

(***************************************************************************)
(* utils.ts: TerminalHistory.  A terminal value t carries the fields of    *)
(* AITerminal: history, currentIndex (of its TerminalHistory), model and   *)
(* genAI (TRUE when the handle is set).  Timestamps are not modelled.      *)
(***************************************************************************)
\* An add that pushes the entry and leaves the cursor where it was.
HistoryAddKeepsCursor(t, command, output) ==
  [t EXCEPT !.history = Append(@, [command |-> command, output |-> output])]

HistoryAdd(t, command, output) ==
  [t EXCEPT !.history = Append(@, [command |-> command, output |-> output]),
            !.currentIndex = Len(t.history) + 1]

HistoryClear(t) == [t EXCEPT !.history = <<>>, !.currentIndex = -1]

\* The null that getPrevious returns when there is no earlier entry.
Null == <<"null">>

\* A getPrevious that goes round to the newest entry from the start.
getPreviousWraps(t) ==
  IF t.currentIndex > 0
  THEN [t |-> [t EXCEPT !.currentIndex = @ - 1],
        returned |-> t.history[(t.currentIndex - 1) + 1].command]
  ELSE IF t.history # <<>>
  THEN [t |-> [t EXCEPT !.currentIndex = Len(t.history) - 1],
        returned |-> t.history[Len(t.history)].command]
  ELSE [t |-> t, returned |-> Null]

\* getPrevious, getNext and getAll give the terminal afterwards and the value
\* returned.  currentIndex counts from 0, sequences from 1.
getPrevious(t) ==
  IF t.currentIndex > 0
  THEN [t |-> [t EXCEPT !.currentIndex = @ - 1],
        returned |-> t.history[(t.currentIndex - 1) + 1].command]
  ELSE [t |-> t, returned |-> Null]

\* A getNext that forgets to move the cursor past the end (line 45).
getNextKeepsCursor(t) ==
  IF t.currentIndex < Len(t.history) - 1
  THEN [t |-> [t EXCEPT !.currentIndex = @ + 1],
        returned |-> t.history[(t.currentIndex + 1) + 1].command]
  ELSE [t |-> t, returned |-> <<>>]

getNext(t) ==
  IF t.currentIndex < Len(t.history) - 1
  THEN [t |-> [t EXCEPT !.currentIndex = @ + 1],
        returned |-> t.history[(t.currentIndex + 1) + 1].command]
  ELSE [t |-> [t EXCEPT !.currentIndex = Len(t.history)], returned |-> <<>>]

getAll(t) == [t |-> t, returned |-> [i \in 1..Len(t.history) |-> t.history[i]]]

(***************************************************************************)
(* terminal.ts: executeShellCommand.  A shell outcome o is what the child  *)
(* process does: o.launch = TRUE when sh could not be started (an error    *)
(* event with o.message, followed by the close event with the negative     *)
(* code), else a close event with exit code o.code after o.stdout and      *)
(* o.stderr were collected.                                                *)
(***************************************************************************)
OnClose(o) ==
  IF o.code = 0
  THEN [success |-> TRUE,
        output |-> IF Trim(o.stdout) # <<>> THEN Trim(o.stdout) ELSE MsgExecuted,
        error |-> Undefined]
  ELSE [success |-> FALSE,
        output |-> IF Trim(o.stderr) # <<>> THEN Trim(o.stderr)
                   ELSE MsgFailedWithCode \o <<ToString(o.code)>>,
        error |-> Trim(o.stderr)]

OnError(o) ==
  [success |-> FALSE, output |-> PrefixError \o o.message, error |-> o.message]

\* The calls of resolve, in the order the events are delivered.
Resolutions(o) == IF o.launch THEN <<OnError(o), OnClose(o)>> ELSE <<OnClose(o)>>

\* A result holder that every call of resolve overwrites.
PromiseLastValue(rs) == rs[Len(rs)]

\* A promise keeps the value of the first call of resolve.
PromiseValue(rs) == rs[1]

executeShellCommand(t, command, o) ==
  [t |-> t,
   result |-> PromiseValue(Resolutions(o)),
   trace |-> <<Event("spawn", command)>>
             \o (IF o.launch THEN <<Event("error", o.message)>> ELSE <<>>)
             \o <<Event("stdout", o.stdout), Event("stderr", o.stderr),
                  Event("close", <<ToString(o.code)>>)>>]

(***************************************************************************)
(* terminal.ts: credential prompt and setup.                               *)
(***************************************************************************)
\* A prompt that measures the key as typed, before trimming.
promptForApiKeyUntrimmedLength(typed) ==
  LET trimmedKey == Trim(typed)
  IN IF trimmedKey = <<>> THEN [ok |-> FALSE, key |-> <<>>]
     ELSE IF Len(typed) < MinKeyLength THEN [ok |-> FALSE, key |-> <<>>]
     ELSE [ok |-> TRUE, key |-> trimmedKey]

\* promptForApiKey: typed is what the user enters; ok = FALSE stands for null.
promptForApiKey(typed) ==
  LET trimmedKey == Trim(typed)
  IN IF trimmedKey = <<>> THEN [ok |-> FALSE, key |-> <<>>]
     ELSE IF Len(trimmedKey) < MinKeyLength THEN [ok |-> FALSE, key |-> <<>>]
     ELSE [ok |-> TRUE, key |-> trimmedKey]

setupAI(t, apiKey) == [t EXCEPT !.genAI = TRUE, !.model = TRUE]

(***************************************************************************)
(* terminal.ts: builtin handlers.  A collaborator outcome a is what the    *)
(* text-generation service does with one request: it emits the fragments   *)
(* a.frags and then, when a.fails, raises an error with a.message.  The    *)
(* blocking call returns the concatenation of the fragments, or raises.    *)
(***************************************************************************)
handleHelp(t) ==
  [t |-> t, result |-> [success |-> TRUE, output |-> MsgHelp, error |-> Undefined],
   trace |-> <<Event("handler", Str_help)>>]

callGeminiAPI(t, prompt, a) ==
  IF ~t.model
  THEN [t |-> t,
        result |-> [success |-> FALSE, output |-> MsgNotInitialized,
                    error |-> <<"No API key">>],
        trace |-> <<>>]
  ELSE [t |-> t,
        result |-> IF a.fails
                   THEN [success |-> FALSE, output |-> PrefixAIError \o a.message,
                         error |-> a.message]
                   ELSE [success |-> TRUE, output |-> Concat(a.frags),
                         error |-> Undefined],
        trace |-> <<Event("generateContent", prompt)>>
                  \o (IF a.fails THEN <<Event("raise", a.message)>> ELSE <<>>)]

Usage(t, msg, err) ==
  [t |-> t, result |-> [success |-> FALSE, output |-> msg, error |-> err],
   trace |-> <<>>]

handleExplain(t, text, a) ==
  IF text = <<>> THEN Usage(t, MsgUsageExplain, <<"Missing text">>)
  ELSE callGeminiAPI(t, PromptExplain \o text, a)

handleGenerate(t, request, a) ==
  IF request = <<>> THEN Usage(t, MsgUsageGenerate, <<"Missing request">>)
  ELSE callGeminiAPI(t, PromptGenerate \o request, a)

handleSummarize(t, text, a) ==
  IF text = <<>> THEN Usage(t, MsgUsageSummarize, <<"Missing text">>)
  ELSE callGeminiAPI(t, PromptSummarize \o text, a)

handleAICommand(t, command, args, a) ==
  LET r == CASE command = Str_explain -> handleExplain(t, args, a)
             [] command = Str_generate -> handleGenerate(t, args, a)
             [] command = Str_summarize -> handleSummarize(t, args, a)
             [] OTHER -> Usage(t, MsgUnknownAI, <<"Unknown command">>)
  IN [r EXCEPT !.trace = <<Event("handler", command)>> \o @]

\* What fs.existsSync answered.
Exists(f) == Event("exists", IF f.exists THEN <<"true">> ELSE <<"false">>)

\* A handleVision that asks whether the file exists and reads it anyway.
handleVisionReadsAnyway(t, imagePath, f, a) ==
  LET fail(out, err) == [success |-> FALSE, output |-> out, error |-> err]
      h == <<Event("handler", Str_vision)>>
  IN IF imagePath = <<>>
     THEN [t |-> t, result |-> fail(MsgUsageVision, <<"Missing image path">>),
           trace |-> h]
     ELSE IF ~f.exists \/ ~f.readable
     THEN [t |-> t, result |-> fail(PrefixVisionError \o f.message, f.message),
           trace |-> h \o <<Event("existsSync", imagePath), Exists(f),
                            Event("readFileSync", imagePath)>>]
     ELSE IF ~t.genAI
     THEN [t |-> t, result |-> fail(MsgVisionNotInitialized, <<"No API key">>),
           trace |-> h \o <<Event("existsSync", imagePath), Exists(f),
                            Event("readFileSync", imagePath)>>]
     ELSE [t |-> t,
           result |-> IF a.fails
                      THEN fail(PrefixVisionError \o a.message, a.message)
                      ELSE [success |-> TRUE, output |-> Concat(a.frags),
                            error |-> Undefined],
           trace |-> h \o <<Event("existsSync", imagePath), Exists(f),
                            Event("readFileSync", imagePath),
                            Event("generateContent", PromptVision)>>
                     \o (IF a.fails THEN <<Event("raise", a.message)>> ELSE <<>>)]

\* f is the file system's answer for the path: f.exists (existsSync) and
\* f.readable (readFileSync returns rather than throws f.message).
handleVision(t, imagePath, f, a) ==
  LET fail(out, err) == [success |-> FALSE, output |-> out, error |-> err]
      h == <<Event("handler", Str_vision)>>
  IN IF imagePath = <<>>
     THEN [t |-> t, result |-> fail(MsgUsageVision, <<"Missing image path">>),
           trace |-> h]
     ELSE IF ~f.exists
     THEN [t |-> t,
           result |-> fail(MsgImageNotFound \o imagePath, <<"File not found">>),
           trace |-> h \o <<Event("existsSync", imagePath), Exists(f)>>]
     ELSE IF ~f.readable
     THEN [t |-> t, result |-> fail(PrefixVisionError \o f.message, f.message),
           trace |-> h \o <<Event("existsSync", imagePath), Exists(f),
                            Event("readFileSync", imagePath)>>]
     ELSE IF ~t.genAI
     THEN [t |-> t, result |-> fail(MsgVisionNotInitialized, <<"No API key">>),
           trace |-> h \o <<Event("existsSync", imagePath), Exists(f),
                            Event("readFileSync", imagePath)>>]
     ELSE [t |-> t,
           result |-> IF a.fails
                      THEN fail(PrefixVisionError \o a.message, a.message)
                      ELSE [success |-> TRUE, output |-> Concat(a.frags),
                            error |-> Undefined],
           trace |-> h \o <<Event("existsSync", imagePath), Exists(f),
                            Event("readFileSync", imagePath),
                            Event("generateContent", PromptVision)>>
                     \o (IF a.fails THEN <<Event("raise", a.message)>> ELSE <<>>)]

handleClear(t) ==
  [t |-> HistoryClear(t),
   result |-> [success |-> TRUE, output |-> MsgCleared, error |-> Undefined],
   trace |-> <<Event("handler", Str_clear)>>]

(***************************************************************************)
(* terminal.ts: executeCommand and streamResponse.  env is what the        *)
(* collaborators answer during the call: env.key is typed at the           *)
(* credential prompt, env.shell is the child process's outcome, env.ai the *)
(* text-generation service's and env.file the file system's.               *)
(***************************************************************************)
\* A membership test that accepts what begins with a member.
IncludesPrefixOf(arr, x) == \E i \in DOMAIN arr : StartsWith(x, arr[i])

\* Array.prototype.includes
Includes(arr, x) == \E i \in DOMAIN arr : arr[i] = x

\* A log that takes every result with output, failed ones too.
LogEveryOutput(run, fullCommand) ==
  LET logged == IF run.result.output # <<>>
                THEN [run EXCEPT !.t = HistoryAdd(run.t, fullCommand, run.result.output)]
                ELSE run
  IN [logged EXCEPT !.trace = @ \o <<Event("return", run.result.output)>>]

\* Lines 93-97: a successful result with output is logged, then returned.
LogAndReturn(run, fullCommand) ==
  LET logged == IF run.result.success /\ run.result.output # <<>>
                THEN [run EXCEPT !.t = HistoryAdd(run.t, fullCommand, run.result.output)]
                ELSE run
  IN [logged EXCEPT !.trace = @ \o <<Event("return", run.result.output)>>]

\* Lines 52-59: the early return when no credential was obtained.
NoKeyReturn(t, typed) ==
  [t |-> t,
   result |-> [success |-> FALSE, output |-> MsgNoKey, error |-> <<"No API key">>],
   trace |-> <<Event("prompt", typed), Event("return", MsgNoKey)>>]

\* A switch that matches the verb by prefix, as the front ends do.
DispatchByPrefix(command) ==
  CASE command = Str_help -> "help"
    [] StartsWith(command, Str_explain) -> "ai"
    [] StartsWith(command, Str_generate) -> "ai"
    [] StartsWith(command, Str_summarize) -> "ai"
    [] command = Str_vision -> "vision"
    [] command = Str_clear -> "clear"
    [] command = <<>> -> "empty"
    [] OTHER -> "shell"

\* An empty case that answers as a shell command without output does.
handleEmptyWithNotice(t) ==
  [t |-> t,
   result |-> [success |-> TRUE, output |-> MsgExecuted, error |-> Undefined],
   trace |-> <<>>]

\* Lines 84-85: case "" returns an empty successful result.
handleEmpty(t) ==
  [t |-> t,
   result |-> [success |-> TRUE, output |-> <<>>, error |-> Undefined],
   trace |-> <<>>]

\* The verb the switch of executeCommand selects a builtin for, or "shell".
Dispatch(command) ==
  CASE command = Str_help -> "help"
    [] command = Str_explain -> "ai"
    [] command = Str_generate -> "ai"
    [] command = Str_summarize -> "ai"
    [] command = Str_vision -> "vision"
    [] command = Str_clear -> "clear"
    [] command = <<>> -> "empty"
    [] OTHER -> "shell"

executeCommand(t, input, env) ==
  LET p == parseCommand(input)
      command == p.command
      args == p.args
      fullCommand == Trim(input)
      asked == promptForApiKey(env.key)
      t1 == IF t.model THEN t ELSE setupAI(t, asked.key)
      solicit == IF t.model THEN <<>> ELSE <<Event("prompt", env.key)>>
      after(run) == [run EXCEPT !.trace = solicit \o @]
      branch == Dispatch(command)
  IN CASE branch = "help" -> LogAndReturn(handleHelp(t), fullCommand)
       [] branch = "ai" ->
            IF ~t.model /\ ~asked.ok THEN NoKeyReturn(t, env.key)
            ELSE LogAndReturn(after(handleAICommand(t1, command, args, env.ai)),
                              fullCommand)
       [] branch = "vision" ->
            IF ~t.model /\ ~asked.ok THEN NoKeyReturn(t, env.key)
            ELSE LogAndReturn(after(handleVision(t1, args, env.file, env.ai)),
                              fullCommand)
       [] branch = "clear" -> LogAndReturn(handleClear(t), fullCommand)
       [] branch = "empty" -> LogAndReturn(handleEmpty(t), fullCommand)
       [] OTHER -> LogAndReturn(executeShellCommand(t, fullCommand, env.shell),
                                fullCommand)

\* A streaming path whose switch has no case for generate.
StreamPromptWithoutGenerate(command, args) ==
  CASE command = Str_explain -> PromptExplain \o args
    [] command = Str_summarize -> PromptSummarize \o args
    [] OTHER -> <<>> \o args

\* Lines 302-313: the instruction the streaming path builds.
StreamPrompt(command, args) ==
  CASE command = Str_explain -> PromptExplain \o args
    [] command = Str_generate -> PromptGenerate \o args
    [] command = Str_summarize -> PromptSummarize \o args
    [] OTHER -> <<>> \o args

\* Lines 317-320: every chunk of the stream is yielded as it arrives.
RECURSIVE StreamLoop(_)
StreamLoop(chunks) ==
  IF chunks = <<>> THEN <<>>
  ELSE <<Head(chunks)>> \o StreamLoop(Tail(chunks))

Yields(fragments) == [i \in 1..Len(fragments) |-> Event("yield", fragments[i])]
Chunks(fragments) == [i \in 1..Len(fragments) |-> Event("chunk", fragments[i])]

streamResponse(t, input, env) ==
  LET p == parseCommand(input)
      command == p.command
      args == p.args
  IN IF ~Includes(StreamVerbs, command)
     THEN LET run == executeCommand(t, input, env)
          IN [t |-> run.t, yields |-> <<run.result.output>>,
              trace |-> run.trace \o Yields(<<run.result.output>>)]
     ELSE IF ~t.model
     THEN [t |-> t, yields |-> <<MsgStreamNotInitialized>>,
           trace |-> Yields(<<MsgStreamNotInitialized>>)]
     ELSE LET prompt == StreamPrompt(command, args)
              caught == IF env.ai.fails
                        THEN <<PrefixError \o env.ai.message>> ELSE <<>>
              fragments == StreamLoop(env.ai.frags) \o caught
          IN [t |-> t, yields |-> fragments,
              trace |-> <<Event("generateContentStream", prompt)>>
                        \o Chunks(env.ai.frags)
                        \o Yields(StreamLoop(env.ai.frags))
                        \o (IF env.ai.fails
                            THEN <<Event("raise", env.ai.message)>> ELSE <<>>)
                        \o Yields(caught)]

(***************************************************************************)
(* The inputs and the collaborators' answers the model draws from.         *)
(***************************************************************************)
RECURSIVE Rep(_, _)
Rep(c, n) == IF n = 0 THEN <<>> ELSE <<c>> \o Rep(c, n - 1)

Inputs ==
  { <<>>,
    <<" ", "\t">>,
    Str_help,
    Str_clear,
    Str_explain,
    <<"E", "X", "P", "L", "A", "I", "N", " ", "F", "o", "o">>,
    Str_explain \o <<"e", "r", " ", "x">>,
    Str_explain \o <<"\t", "x">>,
    Str_generate \o <<" ", "x">>,
    Str_generate,
    Str_summarize \o <<"\r", "\n", "x", " ">>,
    Str_summarize \o <<" ">>,
    Str_vision,
    Str_vision \o <<" ", "p">>,
    <<"l", "s">>,
    <<" ", "l", "s", " ", "-", "l", " ">>,
    <<" ">> \o Str_explain \o <<" ", "x">>,
    Str_exit,
    <<" ", "E", "X", "I", "T", " ">> }

\* What the user may type at the credential prompt.
Keys ==
  { <<>>,
    <<" ", " ">>,
    <<" ">> \o Rep("k", MinKeyLength - 1) \o <<" ">>,
    <<" ">> \o Rep("k", MinKeyLength) \o <<" ">> }

\* What config.apiKey and GEMINI_API_KEY may hold when a terminal is built.
ConfigKeys == { <<>>, <<"k">>, Rep("k", MinKeyLength) }

ShellOutcomes ==
  { [launch |-> TRUE, message |-> <<"spawn sh ENOENT">>, code |-> -2,
     stdout |-> <<>>, stderr |-> <<>>],
    [launch |-> FALSE, message |-> <<>>, code |-> 0,
     stdout |-> <<"h", "i", "\n">>, stderr |-> <<>>],
    [launch |-> FALSE, message |-> <<>>, code |-> 0,
     stdout |-> <<"\n">>, stderr |-> <<"w", "\n">>],
    [launch |-> FALSE, message |-> <<>>, code |-> 7,
     stdout |-> <<"h", "i", "\n">>, stderr |-> <<" ", "\n">>],
    [launch |-> FALSE, message |-> <<>>, code |-> 1,
     stdout |-> <<>>, stderr |-> <<"n", "o", "\n">>] }

AIOutcomes ==
  { [frags |-> <<<<"Hel">>, <<"lo">>>>, fails |-> FALSE, message |-> <<>>],
    [frags |-> <<>>, fails |-> FALSE, message |-> <<>>],
    [frags |-> <<<<"Hel">>>>, fails |-> TRUE, message |-> <<"quota exceeded">>],
    [frags |-> <<>>, fails |-> TRUE, message |-> <<"quota exceeded">>] }

FileOutcomes ==
  { [exists |-> FALSE, readable |-> FALSE, message |-> <<>>],
    [exists |-> TRUE, readable |-> FALSE,
     message |-> <<"EISDIR: illegal operation on a directory, read">>],
    [exists |-> TRUE, readable |-> TRUE, message |-> <<>>] }

\* The answers that can be read by a call with this input on this terminal.
\* A collaborator that is not reached gives its first answer: no credential
\* is typed when the model is set or the verb needs none, no file is looked
\* up and no request is sent when no credential was obtained, and no image is
\* sent unless the file was read.
Unasked(S) == {CHOOSE x \in S : TRUE}

Envs(t, input) ==
  LET p == parseCommand(input)
      branch == Dispatch(p.command)
      keys == IF branch \in {"ai", "vision"} /\ ~t.model THEN Keys ELSE Unasked(Keys)
      shells == IF branch = "shell" THEN ShellOutcomes ELSE Unasked(ShellOutcomes)
      granted(k) == t.model \/ promptForApiKey(k).ok
      files(k) == IF branch = "vision" /\ granted(k) /\ p.args # <<>>
                  THEN FileOutcomes ELSE Unasked(FileOutcomes)
      ais(k, f) == IF /\ granted(k)
                      /\ \/ branch = "ai"
                         \/ branch = "vision" /\ p.args # <<>> /\ f.exists /\ f.readable
                   THEN AIOutcomes ELSE Unasked(AIOutcomes)
  IN UNION { UNION { [key : {k}, shell : shells, ai : ais(k, f), file : {f}]
                     : f \in files(k) } : k \in keys }

(***************************************************************************)
(* State.                                                                  *)
(***************************************************************************)
VARIABLES
  history,       \* TerminalHistory.history: the entries, oldest first
  currentIndex,  \* TerminalHistory.currentIndex: the recall cursor
  model,         \* AITerminal.model is set
  genAI,         \* AITerminal.genAI is set
  frontend,      \* who drives the terminal: "api", "start", "exec" or "ui"
  explainMode,   \* the explainMode property of the graphical terminal
  exitCode,      \* the process's exit code, -1 while it runs
  last,          \* the last operation: what was asked and what happened
  ops            \* the number of commands given so far

vars == <<history, currentIndex, model, genAI, frontend, explainMode, exitCode,
          last, ops>>

Terminal ==
  [history |-> history, currentIndex |-> currentIndex, model |-> model,
   genAI |-> genAI]

SetTerminal(t) ==
  /\ history' = t.history
  /\ currentIndex' = t.currentIndex
  /\ model' = t.model
  /\ genAI' = t.genAI

NoResult == [success |-> TRUE, output |-> <<>>, error |-> Undefined]

\* The record of an operation: op is the entry point, input what it was given,
\* path how the terminal was called ("execute", "stream" or "none"), sent what
\* the terminal was called with, command and args what parseCommand made of
\* it, configured whether model was set before the call.
Blocking(op, input, sent, run) ==
  [op |-> op, input |-> input, path |-> "execute", sent |-> sent,
   command |-> parseCommand(sent).command, args |-> parseCommand(sent).args,
   configured |-> model, result |-> run.result, yields |-> <<>>,
   trace |-> run.trace]

Streamed(op, input, sent, run) ==
  [op |-> op, input |-> input, path |-> "stream", sent |-> sent,
   command |-> parseCommand(sent).command, args |-> parseCommand(sent).args,
   configured |-> model, result |-> NoResult, yields |-> run.yields,
   trace |-> run.trace]

Skipped(op, input) ==
  [op |-> op, input |-> input, path |-> "none", sent |-> <<>>,
   command |-> <<>>, args |-> <<>>,
   configured |-> model, result |-> NoResult, yields |-> <<>>, trace |-> <<>>]

\* utils.ts validateApiKey and the constructor of AITerminal.
validateApiKey(apiKey, envKey) ==
  LET key == IF apiKey # <<>> THEN apiKey ELSE envKey
  IN key # <<>>

Constructor(configKey, envKey) ==
  LET apiKey == IF configKey # <<>> THEN configKey ELSE envKey
      set == apiKey # <<>> /\ validateApiKey(apiKey, envKey)
  IN [history |-> <<>>, currentIndex |-> -1, model |-> set, genAI |-> set]

Init ==
  /\ frontend \in {"api", "start", "exec", "ui"}
  /\ explainMode \in (IF frontend = "ui" THEN BOOLEAN ELSE {FALSE})
  /\ \E configKey \in (IF frontend \in {"api", "ui"} THEN ConfigKeys ELSE {<<>>}),
        envKey \in ConfigKeys :
       LET t == Constructor(configKey, envKey)
       IN /\ history = t.history
          /\ currentIndex = t.currentIndex
          /\ model = t.model
          /\ genAI = t.genAI
  /\ exitCode = -1
  /\ last = Skipped("new", <<>>)
  /\ ops = 0

\* The process runs and the session has commands left.
Running == exitCode = -1 /\ ops < MaxOps

(***************************************************************************)
(* The library used directly (index.ts exports AITerminal).                *)
(***************************************************************************)
ExecuteCommand ==
  /\ frontend = "api" /\ Running
  /\ \E input \in Inputs : \E env \in Envs(Terminal, input) :
       \E run \in {executeCommand(Terminal, input, env)} :
          /\ SetTerminal(run.t)
          /\ last' = Blocking("executeCommand", input, input, run)
  /\ ops' = ops + 1
  /\ UNCHANGED <<frontend, explainMode, exitCode>>

StreamResponse ==
  /\ frontend = "api" /\ Running
  /\ \E input \in Inputs : \E env \in Envs(Terminal, input) :
       \E run \in {streamResponse(Terminal, input, env)} :
          /\ SetTerminal(run.t)
          /\ last' = Streamed("streamResponse", input, input, run)
  /\ ops' = ops + 1
  /\ UNCHANGED <<frontend, explainMode, exitCode>>

(***************************************************************************)
(* cli.ts: the interactive loop, the interrupt handler and exec.           *)
(***************************************************************************)
\* ["explain", "generate", "summarize"].some((cmd) => s.startsWith(cmd))
StartsWithStreamVerb(s) == \E i \in DOMAIN StreamVerbs : StartsWith(s, StreamVerbs[i])

\* One turn of the while loop of CLITerminal.start.
\* cli.ts line 84: the test that ends the loop.
IsExitAsTyped(input) == input = Str_exit

IsExit(input) == ToLowerCase(Trim(input)) = Str_exit

StartTurn ==
  /\ frontend = "start" /\ Running
  /\ \E input \in Inputs : \E env \in Envs(Terminal, input) :
       IF IsExit(input)
       THEN /\ exitCode' = 0
            /\ last' = Skipped("start", input)
            /\ UNCHANGED <<history, currentIndex, model, genAI>>
       ELSE IF Trim(input) = <<>>
       THEN /\ last' = Skipped("start", input)
            /\ UNCHANGED <<history, currentIndex, model, genAI, exitCode>>
       ELSE IF StartsWithStreamVerb(Trim(input))
       THEN \E run \in {streamResponse(Terminal, input, env)} :
               /\ SetTerminal(run.t)
               /\ last' = Streamed("start", input, input, run)
               /\ UNCHANGED exitCode
       ELSE \E run \in {executeCommand(Terminal, input, env)} :
               /\ SetTerminal(run.t)
               /\ last' = Blocking("start", input, input, run)
               /\ UNCHANGED exitCode
  /\ ops' = ops + 1
  /\ UNCHANGED <<frontend, explainMode>>

\* process.on("SIGINT")
Sigint ==
  /\ frontend \in {"start", "exec"} /\ exitCode = -1
  /\ exitCode' = 0
  /\ last' = Skipped("SIGINT", <<>>)
  /\ UNCHANGED <<history, currentIndex, model, genAI, frontend, explainMode, ops>>

\* The exec action: the process ends with 1 where process.exit(1) is called
\* and with 0 when the action returns.
ExecAction ==
  /\ frontend = "exec" /\ exitCode = -1 /\ ops = 0
  /\ \E command \in Inputs : \E env \in Envs(Terminal, command) :
       IF StartsWithStreamVerb(command)
       THEN \E run \in {streamResponse(Terminal, command, env)} :
               /\ SetTerminal(run.t)
               /\ last' = Streamed("exec", command, command, run)
               /\ exitCode' = 0
       ELSE \E run \in {executeCommand(Terminal, command, env)} :
               /\ SetTerminal(run.t)
               /\ last' = Blocking("exec", command, command, run)
               /\ exitCode' = IF run.result.success THEN 0 ELSE 1
  /\ ops' = ops + 1
  /\ UNCHANGED <<frontend, explainMode>>

(***************************************************************************)
(* ui.tsx: executeCommand of AITerminalUI.                                 *)
(***************************************************************************)
ExplainModeInput(trimmedInput) ==
  Str_explain \o <<" ", "\"">> \o <<"What would this command do: ">>
    \o trimmedInput \o <<"\"">>

UIExecuteCommand ==
  /\ frontend = "ui" /\ Running
  /\ \E input \in Inputs :
       LET trimmedInput == Trim(input)
           sent == IF explainMode THEN ExplainModeInput(trimmedInput)
                   ELSE trimmedInput
       IN /\ Trim(input) # <<>>
          /\ \E env \in Envs(Terminal, sent) :
               IF explainMode
               THEN \E run \in {executeCommand(Terminal, sent, env)} :
                       /\ SetTerminal(run.t)
                       /\ last' = Blocking("ui", input, sent, run)
               ELSE IF StartsWithStreamVerb(trimmedInput)
               THEN \E run \in {streamResponse(Terminal, sent, env)} :
                       /\ SetTerminal(run.t)
                       /\ last' = Streamed("ui", input, sent, run)
               ELSE \E run \in {executeCommand(Terminal, sent, env)} :
                       /\ SetTerminal(run.t)
                       /\ last' = Blocking("ui", input, sent, run)
  /\ ops' = ops + 1
  /\ UNCHANGED <<frontend, explainMode, exitCode>>

Next ==
  \/ ExecuteCommand
  \/ StreamResponse
  \/ StartTurn
  \/ Sigint
  \/ ExecAction
  \/ UIExecuteCommand

Spec == Init /\ [][Next]_vars

(***************************************************************************)
(* utils.ts: a TerminalHistory used on its own (index.ts exports the       *)
(* class, and getHistory hands out the terminal's).  Here last records the *)
(* call just made (op, the command and output given to add, the value      *)
(* returned, the entries getAll returned) and log lists every call so far  *)
(* with the command it was given or the value it returned.                 *)
(***************************************************************************)
HistoryCommands == { <<"l", "s">>, <<"p", "w", "d">> }
HistoryOutputs == { <<>>, <<"o", "k">> }

HistoryCall(op, command, output, returned, entries) ==
  [op |-> op, command |-> command, output |-> output, returned |-> returned,
   entries |-> entries,
   log |-> last.log \o <<Event(op, IF op = "add" THEN command ELSE returned)>>]

HistoryInit ==
  /\ frontend = "history"
  /\ explainMode = FALSE
  /\ history = <<>>
  /\ currentIndex = -1
  /\ model = FALSE
  /\ genAI = FALSE
  /\ exitCode = -1
  /\ last = [op |-> "new", command |-> <<>>, output |-> <<>>, returned |-> <<>>,
             entries |-> <<>>, log |-> <<>>]
  /\ ops = 0

CallsLeft == ops < MaxCalls

Add ==
  /\ CallsLeft
  /\ \E command \in HistoryCommands, output \in HistoryOutputs :
       /\ SetTerminal(HistoryAdd(Terminal, command, output))
       /\ last' = HistoryCall("add", command, output, <<>>, <<>>)
  /\ ops' = ops + 1
  /\ UNCHANGED <<frontend, explainMode, exitCode>>

GetPrevious ==
  /\ CallsLeft
  /\ \E call \in {getPrevious(Terminal)} :
       /\ SetTerminal(call.t)
       /\ last' = HistoryCall("getPrevious", <<>>, <<>>, call.returned, <<>>)
  /\ ops' = ops + 1
  /\ UNCHANGED <<frontend, explainMode, exitCode>>

GetNext ==
  /\ CallsLeft
  /\ \E call \in {getNext(Terminal)} :
       /\ SetTerminal(call.t)
       /\ last' = HistoryCall("getNext", <<>>, <<>>, call.returned, <<>>)
  /\ ops' = ops + 1
  /\ UNCHANGED <<frontend, explainMode, exitCode>>

GetAll ==
  /\ CallsLeft
  /\ \E call \in {getAll(Terminal)} :
       /\ SetTerminal(call.t)
       /\ last' = HistoryCall("getAll", <<>>, <<>>, <<>>, call.returned)
  /\ ops' = ops + 1
  /\ UNCHANGED <<frontend, explainMode, exitCode>>

Clear ==
  /\ CallsLeft
  /\ SetTerminal(HistoryClear(Terminal))
  /\ last' = HistoryCall("clear", <<>>, <<>>, <<>>, <<>>)
  /\ ops' = ops + 1
  /\ UNCHANGED <<frontend, explainMode, exitCode>>

HistoryNext ==
  \/ Add
  \/ GetPrevious
  \/ GetNext
  \/ GetAll
  \/ Clear

HistorySpec == HistoryInit /\ [][HistoryNext]_vars

(***************************************************************************)
(* Vocabulary of the properties.                                           *)
(***************************************************************************)
\* The values of the events named e in a trace, in order.
EventValues(trace, e) ==
  LET sel == SelectSeq(trace, LAMBDA x : x.e = e)
  IN [i \in 1..Len(sel) |-> sel[i].v]

HasEvent(trace, e) == \E i \in DOMAIN trace : trace[i].e = e

BuiltinVerbs ==
  {Str_help, Str_explain, Str_generate, Str_summarize, Str_vision, Str_clear, <<>>}

AIVerbs == {Str_explain, Str_generate, Str_summarize}

\* The last operation called executeCommand (resp. streamResponse) directly.
ViaExecute == last.path = "execute"
ViaStream == last.path = "stream"

\* The result the shell mapping of the specification gives for the child
\* process events recorded in a trace.
ClaimedShellResult(trace) ==
  LET code == EventValues(trace, "close")[1]
      stdout == Trim(EventValues(trace, "stdout")[1])
      stderr == Trim(EventValues(trace, "stderr")[1])
  IN IF HasEvent(trace, "error")
     THEN [success |-> FALSE,
           output |-> <<"Error: ">> \o EventValues(trace, "error")[1]]
     ELSE IF code = <<"0">>
     THEN [success |-> TRUE,
           output |-> IF stdout = <<>> THEN <<"Command executed successfully">>
                      ELSE stdout]
     ELSE [success |-> FALSE,
           output |-> IF stderr = <<>> THEN <<"Command failed with code ">> \o code
                      ELSE stderr]

(***************************************************************************)
(* C1.  executeCommand runs a builtin exactly when the parsed verb is one  *)
(* of help, explain, generate, summarize, vision, clear or the empty       *)
(* string; every other input is given, trimmed and otherwise unchanged, to *)
(* the shell, and no builtin handler, prompt or collaborator is involved.  *)
(***************************************************************************)
C1_RoutesByExactVerb ==
  ViaExecute =>
    IF last.command \in BuiltinVerbs
    THEN ~HasEvent(last.trace, "spawn")
    ELSE /\ EventValues(last.trace, "spawn") = <<Trim(last.sent)>>
         /\ ~HasEvent(last.trace, "handler")
         /\ ~HasEvent(last.trace, "prompt")
         /\ ~HasEvent(last.trace, "generateContent")

\* `explainer x` went to the shell as typed.
C1_Witness ==
  /\ ViaExecute
  /\ last.sent = Str_explain \o <<"e", "r", " ", "x">>
  /\ EventValues(last.trace, "spawn") = <<last.sent>>

(***************************************************************************)
(* C2.  executeShellCommand gives: exit code 0, success with the trimmed   *)
(* stdout or the "executed successfully" text; exit code N # 0, failure    *)
(* with the trimmed stderr or "failed with code N"; a launch failure,      *)
(* failure with the launch error's message, also when the close event      *)
(* follows the error event.                                                *)
(***************************************************************************)
C2_ShellResultMapping ==
  (ViaExecute /\ HasEvent(last.trace, "spawn")) =>
    /\ last.result.success = ClaimedShellResult(last.trace).success
    /\ last.result.output = ClaimedShellResult(last.trace).output
    /\ Len(EventValues(last.trace, "return")) = 1

\* A launch failure: the error event and the close event were both delivered.
C2_Witness ==
  /\ ViaExecute
  /\ HasEvent(last.trace, "error") /\ HasEvent(last.trace, "close")
  /\ ~last.result.success
  /\ last.result.output = <<"Error: ", "spawn sh ENOENT">>

\* An exit code of 7 with a blank stderr.
C2_WitnessCode ==
  /\ ViaExecute
  /\ last.result.output = <<"Command failed with code ", "7">>

(***************************************************************************)
(* C3.  parseCommand splits at the first whitespace character of any kind: *)
(* the verb is the lowercased text before it, the argument the trimmed     *)
(* text after it; without whitespace the verb is the whole lowercased      *)
(* input; runs of CR and LF are single spaces before the split.            *)
(***************************************************************************)
RECURSIVE FirstWhitespace(_, _)
FirstWhitespace(s, i) ==
  IF i > Len(s) THEN 0
  ELSE IF IsWS(s[i]) THEN i ELSE FirstWhitespace(s, i + 1)

ClaimedParse(input) ==
  LET line == ReplaceCRLF(Trim(input))
      at == FirstWhitespace(line, 1)
  IN IF at = 0 THEN [command |-> ToLowerCase(line), args |-> <<>>]
     ELSE [command |-> ToLowerCase(SubSeq(line, 1, at - 1)),
           args |-> Trim(SubSeq(line, at + 1, Len(line)))]

C3_SplitsAtFirstWhitespace ==
  (ViaExecute \/ ViaStream) =>
    /\ last.command = ClaimedParse(last.sent).command
    /\ last.args = ClaimedParse(last.sent).args

(***************************************************************************)
(* C4.  An AI-dependent verb (explain, generate, summarize, vision) given  *)
(* to an Unconfigured terminal solicits a credential at the prompt before  *)
(* a handler runs or any result is returned or yielded, on executeCommand  *)
(* and on streamResponse, from every front end.                            *)
(***************************************************************************)
SolicitsFirst(trace) ==
  \E i \in DOMAIN trace :
    /\ trace[i].e = "prompt"
    /\ \A j \in DOMAIN trace :
         trace[j].e \in {"handler", "return", "yield"} => i < j

C4_SolicitsBeforeResult ==
  ( /\ ViaExecute \/ ViaStream
    /\ last.command \in AIVerbs \cup {Str_vision}
    /\ ~last.configured )
  => SolicitsFirst(last.trace)

(***************************************************************************)
(* C5.  When the credential typed at the prompt is empty or shorter than   *)
(* 20 characters after trimming, executeCommand returns a failed result    *)
(* saying that AI features are unavailable, the terminal stays             *)
(* Unconfigured and otherwise unchanged, and the session goes on: the next *)
(* AI verb solicits again and the next shell command is run and mapped as  *)
(* the shell mapping says.                                                 *)
(***************************************************************************)
Refused(l) ==
  /\ l.path = "execute"
  /\ HasEvent(l.trace, "prompt")
  /\ LET typed == Trim(EventValues(l.trace, "prompt")[1])
     IN typed = <<>> \/ Len(typed) < 20

SaysUnavailable(output) ==
  \E i \in DOMAIN output :
    output[i] = "AI features require a valid Gemini API key. Shell commands will continue to work normally."

C5_RefusedCredentialKeepsSession ==
  [][ ops' = ops + 1 =>
      /\ Refused(last') =>
           /\ ~last'.result.success
           /\ SaysUnavailable(last'.result.output)
           /\ ~model' /\ ~genAI'
           /\ history' = history /\ currentIndex' = currentIndex
           /\ frontend # "exec" => exitCode' = -1
      /\ (Refused(last) /\ last'.path = "execute") =>
           /\ last'.command \in AIVerbs \cup {Str_vision}
                => SolicitsFirst(last'.trace)
           /\ last'.command \notin BuiltinVerbs
                => /\ EventValues(last'.trace, "spawn") = <<Trim(last'.sent)>>
                   /\ last'.result.success = ClaimedShellResult(last'.trace).success
                   /\ last'.result.output = ClaimedShellResult(last'.trace).output
    ]_vars

\* Nineteen characters between two spaces were typed in the interactive loop.
C5_Witness ==
  /\ Refused(last)
  /\ Len(EventValues(last.trace, "prompt")[1]) >= 20
  /\ ~last.result.success
  /\ ~model
  /\ frontend = "start" /\ exitCode = -1

(***************************************************************************)
(* C6.  explain, generate or summarize with an empty argument gives a      *)
(* failed result that states the usage, and the text-generation            *)
(* collaborator is not called, whether the terminal is Configured or not,  *)
(* on executeCommand and on streamResponse.  (Stated for the calls that    *)
(* have a credential when the handler is reached: the terminal was         *)
(* Configured, or it was Unconfigured and the prompt obtained a key.)      *)
(***************************************************************************)
UsageOf(command) ==
  CASE command = Str_explain -> <<"Please provide text to explain. Usage: explain <text>">>
    [] command = Str_generate -> <<"Please provide a generation request. Usage: generate <request>">>
    [] command = Str_summarize -> <<"Please provide text to summarize. Usage: summarize <text>">>

C6_EmptyArgumentIsUsageError ==
  ( /\ ViaExecute \/ ViaStream
    /\ last.command \in AIVerbs
    /\ last.args = <<>>
    /\ last.configured \/ (HasEvent(last.trace, "prompt") /\ ~Refused(last)) )
  => /\ ~HasEvent(last.trace, "generateContent")
     /\ ~HasEvent(last.trace, "generateContentStream")
     /\ ViaExecute => /\ ~last.result.success
                      /\ last.result.output = UsageOf(last.command)
     /\ ViaStream => last.yields = <<UsageOf(last.command)>>

(***************************************************************************)
(* C7.  As claimed: after executeCommand produced a result with non-empty  *)
(* output, succeeded or failed, the newest History Entry holds the command *)
(* and that output.                                                        *)
(***************************************************************************)
EntryOf(l) == [command |-> Trim(l.sent), output |-> l.result.output]

C7_EveryResultIsLogged ==
  (ViaExecute /\ last.result.output # <<>>) =>
    /\ history # <<>>
    /\ history[Len(history)] = EntryOf(last)

(***************************************************************************)
(* C7, amended.  After executeCommand produced a successful result with    *)
(* non-empty output, exactly one History Entry holding the trimmed command *)
(* and that output has been appended, whichever handler produced it; a     *)
(* failed or empty result appends nothing.  The entries already there are  *)
(* left as they were, except that clear removes them all before its own    *)
(* entry is appended.                                                      *)
(***************************************************************************)
C7_SuccessfulResultIsLogged ==
  [][ (ops' = ops + 1 /\ last'.path = "execute") =>
        IF last'.result.success /\ last'.result.output # <<>>
        THEN history' = Append(IF last'.command = Str_clear THEN <<>> ELSE history,
                               EntryOf(last'))
        ELSE history' = history
    ]_vars

\* A second successful command was appended behind the first entry.
C7_Witness ==
  /\ ViaExecute
  /\ last.result.success
  /\ last.command # Str_clear
  /\ Len(history) = 2
  /\ history[2] = EntryOf(last)

\* A failed command with output left the entry of the first command alone.
C7_WitnessFailed ==
  /\ ViaExecute
  /\ ~last.result.success /\ last.result.output # <<>>
  /\ Len(history) = 1
  /\ history[1] # EntryOf(last)

(***************************************************************************)
(* C8.  After a streamed explain, generate or summarize response is        *)
(* exhausted in the interactive loop, in exec or in the graphical          *)
(* terminal, the newest History Entry holds that command and the           *)
(* concatenation of the fragments that were yielded (when that is not      *)
(* empty: an empty output is never logged).                                *)
(***************************************************************************)
C8_StreamedResponseIsLogged ==
  ( /\ ViaStream
    /\ last.op \in {"start", "exec", "ui"}
    /\ last.command \in AIVerbs
    /\ HasEvent(last.trace, "generateContentStream")
    /\ Concat(last.yields) # <<>> )
  => /\ history # <<>>
     /\ history[Len(history)] =
          [command |-> Trim(last.sent), output |-> Concat(last.yields)]

(***************************************************************************)
(* C9.  On a Configured terminal, for an AI verb with a non-empty argument *)
(* and a collaborator that does not fail, streamResponse sends the prompt  *)
(* the blocking call sends and yields the collaborator's fragments in      *)
(* their order, all of them once; their concatenation is the output        *)
(* executeCommand returns when the collaborator's blocking text is the     *)
(* concatenation of its fragments.                                         *)
(***************************************************************************)
\* What executeCommand does with the same input on a Configured terminal
\* whose collaborator answers with these fragments.
BlockingRun(sent, fragments) ==
  executeCommand([Terminal EXCEPT !.model = TRUE, !.genAI = TRUE], sent,
                 [key |-> <<>>,
                  shell |-> CHOOSE o \in ShellOutcomes : TRUE,
                  ai |-> [frags |-> fragments, fails |-> FALSE, message |-> <<>>],
                  file |-> CHOOSE f \in FileOutcomes : TRUE])

C9_StreamEqualsBlocking ==
  ( /\ ViaStream
    /\ last.command \in AIVerbs
    /\ last.args # <<>>
    /\ last.configured
    /\ ~HasEvent(last.trace, "raise") )
  => LET emitted == EventValues(last.trace, "chunk")
         blocking == BlockingRun(last.sent, emitted)
     IN /\ Len(EventValues(last.trace, "generateContentStream")) = 1
        /\ EventValues(last.trace, "generateContentStream")
             = EventValues(blocking.trace, "generateContent")
        /\ last.yields = emitted
        /\ EventValues(last.trace, "yield") = emitted
        /\ Concat(last.yields) = blocking.result.output

\* `generate x` was streamed in two fragments.
C9_Witness ==
  /\ ViaStream
  /\ last.command = Str_generate
  /\ last.configured
  /\ last.yields = <<<<"Hel">>, <<"lo">>>>
  /\ ~HasEvent(last.trace, "raise")

(***************************************************************************)
(* C10.  exec runs one command and the process ends with code 0 when the   *)
(* command succeeded and with code 1 when it failed: a failed result of    *)
(* executeCommand, or an AI verb that met a missing credential, a missing  *)
(* argument or a failure of the remote service.                            *)
(***************************************************************************)
CommandFailed(l) ==
  IF l.path = "execute" THEN ~l.result.success
  ELSE /\ l.command \in AIVerbs
       /\ \/ ~l.configured
          \/ l.args = <<>>
          \/ HasEvent(l.trace, "raise")

C10_ExecExitCode ==
  last.op = "exec" =>
    /\ ops = 1
    /\ exitCode = IF CommandFailed(last) THEN 1 ELSE 0

(***************************************************************************)
(* C11.  In the interactive loop a command that fails leaves the loop at   *)
(* its next prompt (the process has not exited); the loop is left only by  *)
(* the input exit, trimmed and in any case, or by an interrupt, and the    *)
(* process then exits with code 0.                                         *)
(***************************************************************************)
TypedExit(l) ==
  /\ l.op = "start"
  /\ \E i \in 1..Len(l.input) : \E j \in i..Len(l.input) :
        /\ \A k \in 1..Len(l.input) : (k < i \/ k > j) => IsWS(l.input[k])
        /\ [k \in 1..(j - i + 1) |-> LowerChar(l.input[i + k - 1])] = Str_exit

C11_LoopLeftOnlyByExitOrInterrupt ==
  frontend = "start" =>
    /\ exitCode \in {-1, 0}
    /\ TypedExit(last) => exitCode = 0
    /\ (last.op = "start" /\ ~TypedExit(last)) => exitCode = -1
    /\ exitCode = 0 => (TypedExit(last) \/ last.op = "SIGINT")

C11_Witness ==
  /\ frontend = "start"
  /\ last.op = "start"
  /\ CommandFailed(last)
  /\ HasEvent(last.trace, "close")
  /\ exitCode = -1
  /\ ENABLED StartTurn

(***************************************************************************)
(* C12.  Whenever a missing argument, a missing credential, a missing      *)
(* file, a failed shell command or a failed remote call occurs, the caller *)
(* gets a failure with a non-empty message and no exception: a failed      *)
(* result from executeCommand; from the streaming of explain, generate and *)
(* summarize, which has no Command Result, a last fragment that is the     *)
(* usage message or a message beginning with Error:.                       *)
(***************************************************************************)
MissingArgument(l) ==
  /\ l.command \in AIVerbs \cup {Str_vision}
  /\ l.args = <<>>
  /\ l.configured \/ (HasEvent(l.trace, "prompt") /\ ~Refused(l))

MissingCredential(l) ==
  /\ l.command \in AIVerbs \cup {Str_vision}
  /\ ~l.configured
  /\ Refused(l) \/ (l.path = "stream" /\ l.command \in AIVerbs)

FileNotFound(l) ==
  /\ HasEvent(l.trace, "existsSync")
  /\ ~HasEvent(l.trace, "readFileSync")

ShellExecutionFailure(l) ==
  /\ HasEvent(l.trace, "spawn")
  /\ ~ClaimedShellResult(l.trace).success

RemoteServiceFailure(l) == HasEvent(l.trace, "raise")

IsFailureFragment(l, fragment) ==
  /\ fragment # <<>>
  /\ \/ fragment = UsageOf(l.command)
     \/ fragment = <<"Error: AI not initialized. Use an AI command to set up API key.">>
     \/ fragment[1] = "Error: "

C12_ErrorsBecomeFailedResults ==
  ( /\ ViaExecute \/ ViaStream
    /\ \/ MissingArgument(last)
       \/ MissingCredential(last)
       \/ FileNotFound(last)
       \/ ShellExecutionFailure(last)
       \/ RemoteServiceFailure(last) )
  => /\ ViaExecute => /\ ~last.result.success
                      /\ last.result.output # <<>>
                      /\ last.trace[Len(last.trace)] = Event("return", last.result.output)
     /\ ViaStream => /\ last.yields # <<>>
                     /\ last.trace[Len(last.trace)].e = "yield"
                     /\ last.command \in AIVerbs
                          => IsFailureFragment(last, last.yields[Len(last.yields)])

(***************************************************************************)
(* C13.  After executeCommand("clear") has returned, the history has no    *)
(* entry and its cursor is the one of an empty history (-1 as the class    *)
(* resets it, or 0, the number of entries), and the result is successful   *)
(* with the confirmation message.                                          *)
(***************************************************************************)
C13_ClearEmptiesHistory ==
  (ViaExecute /\ last.command = Str_clear) =>
    /\ last.result.success
    /\ last.result.output = <<"Terminal cleared.">>
    /\ history = <<>>
    /\ currentIndex \in {-1, 0}

(***************************************************************************)
(* C14.  On a new TerminalHistory, after n >= 1 calls of add with commands *)
(* c1..cn (outputs not empty) and nothing else, the next n calls of        *)
(* getPrevious return cn, ..., c1 in that order, and the n calls of        *)
(* getNext that follow return c2, ..., cn and then the empty string, and   *)
(* leave the cursor past the end.  Stated of every prefix of such a run.   *)
(***************************************************************************)
RecallRun(n, k, j) ==
  /\ Len(last.log) = n + k + j
  /\ j > 0 => k = n
  /\ \A i \in 1..n : last.log[i].e = "add"
  /\ \A i \in (n + 1)..(n + k) : last.log[i].e = "getPrevious"
  /\ \A i \in (n + k + 1)..(n + k + j) : last.log[i].e = "getNext"
  /\ \A i \in DOMAIN history : history[i].output # <<>>

C14_RecallOrder ==
  \A n \in 1..Len(last.log) : \A k \in 0..n :
    \A j \in {Len(last.log) - n - k} \cap 0..n :
    RecallRun(n, k, j) =>
      /\ [i \in 1..Len(history) |-> history[i].command]
           = [i \in 1..n |-> last.log[i].v]
      /\ \A i \in 1..k : last.log[n + i].v = last.log[n - i + 1].v
      /\ \A i \in 1..j :
           last.log[n + k + i].v = IF i < n THEN last.log[i + 1].v ELSE <<>>
      /\ j = n => currentIndex = n

\* Two different commands were added, recalled backwards and then forwards.
C14_Witness ==
  /\ RecallRun(2, 2, 2)
  /\ last.log[1].v # last.log[2].v
  /\ last.log[4].v = last.log[1].v
  /\ last.op = "getNext" /\ last.returned = <<>>
  /\ currentIndex = 2

(***************************************************************************)
(* C15.  An input that is empty or only whitespace gives a successful      *)
(* result with empty output wherever a result is produced (streamResponse  *)
(* yields that empty output), starts no shell process, asks for no         *)
(* credential, calls no collaborator, and leaves the history, the cursor   *)
(* and the credential state as they were.                                  *)
(***************************************************************************)
IsBlank(input) == \A i \in DOMAIN input : IsWS(input[i])

C15_BlankInputDoesNothing ==
  [][ (ops' = ops + 1 /\ IsBlank(last'.input)) =>
        /\ last'.path = "execute" =>
             /\ last'.result.success
             /\ last'.result.output = <<>>
        /\ last'.path = "stream" => last'.yields = << <<>> >>
        /\ \A i \in DOMAIN last'.trace :
             last'.trace[i].e \in {"return", "yield"}
        /\ history' = history /\ currentIndex' = currentIndex
        /\ model' = model /\ genAI' = genAI
    ]_vars

\* Whitespace was given to executeCommand when the history held an entry.
C15_Witness ==
  /\ last.path = "execute"
  /\ last.sent = <<" ", "\t">>
  /\ last.result.success /\ last.result.output = <<>>
  /\ Len(history) = 1 /\ currentIndex = 1
  /\ ops = 2

(***************************************************************************)
(* C16.  As claimed: in every credential state, vision with a non-empty    *)
(* path gives the failed result saying that the file was not found, and    *)
(* calls no collaborator, unless the file was found to exist.              *)
(***************************************************************************)
VisionWithPath(l) ==
  /\ l.path = "execute"
  /\ l.command = Str_vision
  /\ l.args # <<>>

SaysNotFound(l) ==
  /\ ~l.result.success
  /\ l.result.output = <<"Image file not found: ">> \o l.args
  /\ ~HasEvent(l.trace, "readFileSync")
  /\ ~HasEvent(l.trace, "generateContent")
  /\ ~HasEvent(l.trace, "generateContentStream")

C16_MissingFileInEveryCredentialState ==
  (VisionWithPath(last) /\ EventValues(last.trace, "exists") # << <<"true">> >>)
    => SaysNotFound(last)

(***************************************************************************)
(* C16, amended.  When the terminal is Configured, or is Unconfigured and  *)
(* a valid key is typed at the prompt, vision with a non-empty path asks   *)
(* whether the file exists and, when it does not, gives the failed result  *)
(* saying that the file was not found and calls no collaborator.  When the *)
(* prompt is refused the result is the missing-credential failure and the  *)
(* file is not looked at.  No other result of executeCommand begins with   *)
(* the not-found message.                                                  *)
(***************************************************************************)
C16_MissingFileIsReported ==
  /\ VisionWithPath(last) =>
       IF Refused(last)
       THEN /\ ~last.result.success
            /\ SaysUnavailable(last.result.output)
            /\ ~HasEvent(last.trace, "existsSync")
       ELSE /\ EventValues(last.trace, "existsSync") = <<last.args>>
            /\ EventValues(last.trace, "exists") = << <<"false">> >>
                 => SaysNotFound(last)
  /\ ( /\ ViaExecute
       /\ last.result.output # <<>>
       /\ last.result.output[1] = "Image file not found: " )
     => /\ VisionWithPath(last)
        /\ EventValues(last.trace, "exists") = << <<"false">> >>

\* An Unconfigured terminal was given a key and then did not find the file.
C16_Witness ==
  /\ VisionWithPath(last)
  /\ ~last.configured
  /\ HasEvent(last.trace, "prompt") /\ ~Refused(last)
  /\ EventValues(last.trace, "exists") = << <<"false">> >>
  /\ SaysNotFound(last)

(***************************************************************************)
(* C17.  TerminalHistory.add called with an empty output leaves the        *)
(* entries and the cursor as they were.                                    *)
(***************************************************************************)
C17_AddIgnoresEmptyOutput ==
  [][ (last'.op = "add" /\ last'.output = <<>>) =>
        (history' = history /\ currentIndex' = currentIndex) ]_vars

(***************************************************************************)
(* C18.  As claimed: the cursor is never below 0 or above the number of    *)
(* entries, and equals the number of entries right after the construction, *)
(* every add and every clear.                                              *)
(***************************************************************************)
C18_CursorWithinEntries ==
  /\ currentIndex \in 0..Len(history)
  /\ last.op \in {"new", "add", "clear"} => currentIndex = Len(history)

(***************************************************************************)
(* C18, amended.  The cursor equals the number of entries right after      *)
(* every add.  Right after the construction and after every clear it is    *)
(* -1 and there is no entry.  In every state the cursor is between -1 and  *)
(* the number of entries, and it is -1 only while no entry has been added  *)
(* since the construction or the last clear; getPrevious and getNext treat *)
(* -1 on the empty history as they treat 0.                                *)
(***************************************************************************)
C18_CursorWithinEntriesOrUnset ==
  /\ currentIndex \in -1..Len(history)
  /\ last.op = "add" => (currentIndex = Len(history) /\ Len(history) >= 1)
  /\ last.op \in {"new", "clear"} => (currentIndex = -1 /\ history = <<>>)
  /\ currentIndex = -1 =>
       /\ history = <<>>
       /\ getPrevious(Terminal) = [t |-> Terminal, returned |-> Null]
       /\ getNext(Terminal).returned = getNext([Terminal EXCEPT !.currentIndex = 0]).returned
       /\ getNext(Terminal).t = getNext([Terminal EXCEPT !.currentIndex = 0]).t

\* An add after recalls had moved the cursor back.
C18_Witness ==
  /\ last.op = "add"
  /\ Len(last.log) >= 3
  /\ last.log[Len(last.log) - 1].e = "getPrevious"
  /\ last.log[Len(last.log) - 1].v # Null
  /\ currentIndex = Len(history)
  /\ Len(history) = 2

(***************************************************************************)
(* C19.  getPrevious called with the cursor at the start, or on an empty   *)
(* history, returns null and leaves the cursor and the entries as they     *)
(* were; getPrevious, getNext and getAll never change the entries, and     *)
(* getAll returns them all.                                                *)
(***************************************************************************)
C19_RecallKeepsEntries ==
  [][ /\ (last'.op = "getPrevious" /\ (currentIndex <= 0 \/ history = <<>>)) =>
           /\ last'.returned = <<"null">>
           /\ currentIndex' = currentIndex
           /\ history' = history
      /\ last'.op \in {"getPrevious", "getNext", "getAll"} => history' = history
      /\ last'.op = "getAll" =>
           (last'.entries = history /\ currentIndex' = currentIndex)
    ]_vars

\* getPrevious was called a third time on a history of two entries.
C19_Witness ==
  /\ last.op = "getPrevious"
  /\ last.returned = Null
  /\ currentIndex = 0
  /\ Len(history) = 2
  /\ Len(last.log) >= 2
  /\ last.log[Len(last.log) - 1] = Event("getPrevious", history[1].command)

(***************************************************************************)
(* C20.  For an input whose parsed verb is not explain, generate or        *)
(* summarize, streamResponse yields exactly one fragment, the output that  *)
(* executeCommand returns for the same input on the same terminal with the *)
(* same answers of the collaborators, after the same steps, and leaves the *)
(* history, the cursor and the credential state as executeCommand does.    *)
(***************************************************************************)
\* The answers env holds are those the credential prompt and the child
\* process gave in the trace.
SameAnswers(trace, env) ==
  /\ HasEvent(trace, "prompt") => env.key = EventValues(trace, "prompt")[1]
  /\ HasEvent(trace, "spawn") =>
       /\ env.shell.launch = HasEvent(trace, "error")
       /\ env.shell.stdout = EventValues(trace, "stdout")[1]
       /\ env.shell.stderr = EventValues(trace, "stderr")[1]
       /\ <<ToString(env.shell.code)>> = EventValues(trace, "close")[1]

C20_StreamDelegatesToExecute ==
  [][ ( /\ ops' = ops + 1
        /\ last'.path = "stream"
        /\ last'.command \notin AIVerbs )
      => \E env \in Envs(Terminal, last'.sent) :
           /\ SameAnswers(last'.trace, env)
           /\ \E run \in {executeCommand(Terminal, last'.sent, env)} :
              /\ last'.yields = <<run.result.output>>
              /\ last'.trace = run.trace \o <<Event("yield", run.result.output)>>
              /\ history' = run.t.history
              /\ currentIndex' = run.t.currentIndex
              /\ model' = run.t.model
              /\ genAI' = run.t.genAI
    ]_vars

\* The interactive loop streamed `explainer x`, which the shell ran and
\* executeCommand logged.
C20_Witness ==
  /\ last.op = "start"
  /\ last.path = "stream"
  /\ last.command = Str_explain \o <<"e", "r">>
  /\ HasEvent(last.trace, "spawn")
  /\ Len(last.yields) = 1
  /\ history # <<>>
  /\ history[Len(history)] = [command |-> last.sent, output |-> last.yields[1]]

====
